---- MODULE Spec2Model ----
(***************************************************************************)
(* A model of package parts (go-parts): run-parts style resolution of an   *)
(* ordered path list (Parts.Readdirnames) and the lazily created           *)
(* concatenating reader over the resolved files (Parts.Read, Parts.Close). *)
(*                                                                         *)
(* Representation.                                                         *)
(*  - A string is the sequence of its byte values ("e/1.c" is              *)
(*    <<101,47,49,46,99>>), so strings.Compare, filepath.Base and          *)
(*    filepath.Join are computed byte by byte.                             *)
(*  - A FileMode (uint32) is the set of the positions of its set bits      *)
(*    (bit 0 is the least significant): m&mask is m \cap mask, m|x is      *)
(*    m \cup x and m == 0 is m = {}.                                       *)
(*  - The file system is a function from path strings to nodes.            *)
(***************************************************************************)
EXTENDS Integers, Sequences, FiniteSets, TLC

VARIABLES
  fs,         \* the file system the session runs against
  Paths,      \* Parts.Paths
  Config,     \* Parts.Config
  readState,  \* Parts.readState: NoState (nil) or [Files, Reader]
  ret,        \* what the last call on the session returned
  out,        \* history: bytes Read has delivered since the read state was created
  born,       \* history: the value of changes when the read state was created
  changes     \* history: number of environment changes so far

vars == <<fs, Paths, Config, readState, ret, out, born, changes>>

----------------------------------------------------------------------------
(* Bounds of the model. *)

\* longest path list drawn for Parts.Paths where only resolution is checked, and
\* where reading is checked too (the scenario lists are drawn besides)
MaxPaths == 2
MaxReadPaths == 1
\* largest limit passed to Readdirnames (the smallest is -1)
MaxN == 1
\* largest buffer passed to Read
MaxBuf == 2
\* environment changes (unlink, Config change) per behaviour
MaxChanges == 1

----------------------------------------------------------------------------
(* Strings. *)

\* strings.Compare: -1, 0 or 1 by byte-wise lexicographic order
RECURSIVE Compare(_, _)
Compare(a, b) ==
  IF a = <<>> /\ b = <<>> THEN 0
  ELSE IF a = <<>> THEN -1
  ELSE IF b = <<>> THEN 1
  ELSE IF Head(a) < Head(b) THEN -1
  ELSE IF Head(a) > Head(b) THEN 1
  ELSE Compare(Tail(a), Tail(b))

\* os.PathSeparator, "/"
Separator == <<47>>

\* path with its trailing separators removed
RECURSIVE StripTrailing(_)
StripTrailing(path) ==
  IF path # <<>> /\ path[Len(path)] = Separator[1]
  THEN StripTrailing(SubSeq(path, 1, Len(path) - 1))
  ELSE path

\* the index of the last separator among the first i bytes of path, 0 if none
RECURSIVE LastSeparator(_, _)
LastSeparator(path, i) ==
  IF i = 0 \/ path[i] = Separator[1] THEN i ELSE LastSeparator(path, i - 1)

\* filepath.Base: the last element of path; "." for "", "/" for only separators
Base(path) ==
  IF path = <<>> THEN <<46>>
  ELSE LET p == StripTrailing(path)
       IN IF p = <<>> THEN Separator
          ELSE SubSeq(p, LastSeparator(p, Len(p)) + 1, Len(p))

\* filepath.Join(path, fileName) for a clean path and a plain file name
Join(path, fileName) == path \o Separator \o fileName

\* A *regexp.Regexp: the nil pointer, or one of the compiled patterns the model
\* draws: all = TRUE is ".*", all = FALSE is "<suffix>$" with suffix literal.
NilRegExp == [nil |-> TRUE, all |-> FALSE, suffix |-> <<>>]

Compiled(all, suffix) == [nil |-> FALSE, all |-> all, suffix |-> suffix]

\* a pattern that every name matches
MatchStringAny(regExp, name) == TRUE

\* regexp.MatchString
MatchString(regExp, name) ==
  \/ regExp.all
  \/ /\ Len(name) >= Len(regExp.suffix)
     /\ SubSeq(name, Len(name) - Len(regExp.suffix) + 1, Len(name)) = regExp.suffix

----------------------------------------------------------------------------
(* File modes (mode.go). *)

ModeDir       == {31}
ModeSymlink   == {27}
ModeDevice    == {26}
ModeNamedPipe == {25}
ModeSocket    == {24}
ModeCharDevice == {21}
\* 1 << (31 - iota) with iota = 12
ModeRegular   == {19}
ModeType == ModeDir \cup ModeSymlink \cup ModeNamedPipe \cup ModeSocket
              \cup ModeDevice \cup ModeRegular
\* 0777
ModePerm == 0..8

\* the constants str and rwx of FileMode.String, letter by letter
TypeLetters == <<"d", "a", "l", "T", "L", "D", "p", "S", "u", "g", "c", "t", "f">>
Rwx == <<"r", "w", "x", "r", "w", "x", "r", "w", "x">>

\* the first loop of String from letter i on: buf gets the letter of each set
\* bit 32 - i (i counts from 1)
RECURSIVE TypeString(_, _, _)
TypeString(m, i, buf) ==
  IF i > Len(TypeLetters) THEN buf
  ELSE TypeString(m, i + 1, IF (32 - i) \in m THEN Append(buf, TypeLetters[i]) ELSE buf)

\* String without the "-" that stands for no type letter
StringNoDash(m) ==
  TypeString(m, 1, <<>>) \o [i \in 1..Len(Rwx) |-> IF (9 - i) \in m THEN Rwx[i] ELSE "-"]

\* FileMode.String
String(m) ==
  LET buf == TypeString(m, 1, <<>>)
  IN (IF Len(buf) = 0 THEN <<"-">> ELSE buf)
       \o [i \in 1..Len(Rwx) |-> IF (9 - i) \in m THEN Rwx[i] ELSE "-"]

\* FileMode.IsDir
IsDir(m) == m \cap ModeDir # {}

\* FileMode.IsRegular
IsRegular(m) == m \cap ModeRegular # {} \/ m \cap ModeType = {}

\* os.ModeType, the type bits of an os.FileMode (os.ModeIrregular is bit 19)
OsModeType == ModeDir \cup ModeSymlink \cup ModeNamedPipe \cup ModeSocket
                \cup ModeDevice \cup ModeCharDevice \cup {19}

\* os.FileMode.IsRegular
OsIsRegular(m) == m \cap OsModeType = {}

DefaultModeTypeFilter == ModeRegular
DefaultModePermFilter == ModePerm
\* 0111
ExecutableModePermFilter == {0, 3, 6}
ExecutableModeTypeFilter == ModeRegular
\* ".*"
DefaultRegExpFilter == Compiled(TRUE, <<>>)

----------------------------------------------------------------------------
(* The file system. *)

\* A node is what a name leads to: kind is "none" (no entry), "reg", "dir" or
\* "link"; names are the entries of a directory, target is where a link points,
\* denied tells that open(2) refuses to open the node for reading (EACCES).
Absent ==
  [kind |-> "none", perm |-> {}, data |-> <<>>, names |-> {}, target |-> <<>>,
   denied |-> FALSE]

Reg(perm, data) == [Absent EXCEPT !.kind = "reg", !.perm = perm, !.data = data]

Unreadable(perm, data) == [Reg(perm, data) EXCEPT !.denied = TRUE]

Dir(perm, names) == [Absent EXCEPT !.kind = "dir", !.perm = perm, !.names = names]

Link(target) == [Absent EXCEPT !.kind = "link", !.perm = ModePerm, !.target = target]

Exists(f, name) == name \in DOMAIN f /\ f[name].kind # "none"

\* the name a stat that follows links ends at (links of the model are one level)
Follow(f, name) ==
  IF Exists(f, name) /\ f[name].kind = "link" THEN f[name].target ELSE name

\* the os.FileMode of a node: its type bits and its permission bits
OsMode(node) ==
  (CASE node.kind = "dir" -> ModeDir
     [] node.kind = "link" -> ModeSymlink
     [] OTHER -> {}) \cup node.perm

\* os.Lstat: the entry itself
OsLstat(f, name) ==
  IF Exists(f, name) THEN [err |-> FALSE, mode |-> OsMode(f[name])]
  ELSE [err |-> TRUE, mode |-> {}]

\* os.Stat: the entry a link leads to; fails on a dangling link
OsStat(f, name) == OsLstat(f, Follow(f, name))

\* the names os.File.Readdirnames(0) lists for directory path: its entries
\* that have not been removed
Children(f, path) == {c \in f[path].names : Exists(f, Join(path, c))}

----------------------------------------------------------------------------
(* Resolution (parts.go). *)

\* StatMode: the mode of the named path, with ModeRegular added for a regular file
StatMode(f, name) ==
  LET fileInfo == OsStat(f, name)
  IN IF fileInfo.err THEN [err |-> TRUE, mode |-> {}]
     ELSE IF OsIsRegular(fileInfo.mode)
          THEN [err |-> FALSE, mode |-> fileInfo.mode \cup ModeRegular]
          ELSE [err |-> FALSE, mode |-> fileInfo.mode]

\* LstatMode calling os.Stat
LstatModeFollows(f, name) ==
  LET fileInfo == OsStat(f, name)
  IN IF fileInfo.err THEN [err |-> TRUE, mode |-> {}]
     ELSE IF OsIsRegular(fileInfo.mode)
          THEN [err |-> FALSE, mode |-> fileInfo.mode \cup ModeRegular]
          ELSE [err |-> FALSE, mode |-> fileInfo.mode]

\* LstatMode: as StatMode, of the link itself when the path is a symbolic link
LstatMode(f, name) ==
  LET fileInfo == OsLstat(f, name)
  IN IF fileInfo.err THEN [err |-> TRUE, mode |-> {}]
     ELSE IF OsIsRegular(fileInfo.mode)
          THEN [err |-> FALSE, mode |-> fileInfo.mode \cup ModeRegular]
          ELSE [err |-> FALSE, mode |-> fileInfo.mode]

\* filter with masks that must be matched bit for bit
filterExact(cfg, name, mode, regExp) ==
  IF ~regExp.nil /\ ~MatchString(regExp, name) THEN FALSE
  ELSE IF mode \cap cfg.ModePermFilter # cfg.ModePermFilter THEN FALSE
  ELSE IF mode \cap cfg.ModeTypeFilter # cfg.ModeTypeFilter THEN FALSE
  ELSE TRUE

\* filter without the permission mask
filterTypeOnly(cfg, name, mode, regExp) ==
  IF ~regExp.nil /\ ~MatchString(regExp, name) THEN FALSE
  ELSE IF mode \cap cfg.ModeTypeFilter = {} THEN FALSE
  ELSE TRUE

\* Parts.filter
filter(cfg, name, mode, regExp) ==
  IF ~regExp.nil /\ ~MatchString(regExp, name) THEN FALSE
  ELSE IF mode \cap cfg.ModePermFilter = {} THEN FALSE
  ELSE IF mode \cap cfg.ModeTypeFilter = {} THEN FALSE
  ELSE TRUE

\* foundNames, with the error that ended the loop: "nil" while there is none
NoneFound == [found |-> [b \in {} |-> <<>>], err |-> "nil"]

\* the loop body without the test for a name found before: the last path wins
ScanChildOverwrite(f, cfg, path, fileName, acc) ==
  LET fullPath == Join(path, fileName)
      st == StatMode(f, fullPath)
  IN IF st.err THEN [acc EXCEPT !.err = "ErrStat"]
     ELSE IF filter(cfg, fileName, st.mode, cfg.RegExpFilter)
          THEN [acc EXCEPT !.found = (fileName :> fullPath) @@ acc.found]
          ELSE acc

\* the loop body with foundNames keyed by the full path
ScanChildKeyedByPath(f, cfg, path, fileName, acc) ==
  LET fullPath == Join(path, fileName)
      st == StatMode(f, fullPath)
  IN IF st.err THEN [acc EXCEPT !.err = "ErrStat"]
     ELSE IF fullPath \in DOMAIN acc.found THEN acc
     ELSE IF filter(cfg, fileName, st.mode, cfg.RegExpFilter)
          THEN [acc EXCEPT !.found = (fullPath :> fullPath) @@ acc.found]
          ELSE acc

\* the body of the loop over a directory's file names
ScanChild(f, cfg, path, fileName, acc) ==
  LET fullPath == Join(path, fileName)
      st == StatMode(f, fullPath)
  IN IF st.err THEN [acc EXCEPT !.err = "ErrStat"]
     ELSE IF fileName \in DOMAIN acc.found THEN acc
     ELSE IF filter(cfg, fileName, st.mode, cfg.RegExpFilter)
          THEN [acc EXCEPT !.found = (fileName :> fullPath) @@ acc.found]
          ELSE acc

\* the loop over a directory's file names, in the order the directory lists them
RECURSIVE ScanDir(_, _, _, _, _)
ScanDir(f, cfg, path, todo, acc) ==
  IF todo = {} \/ acc.err # "nil" THEN acc
  ELSE LET fileName == CHOOSE c \in todo : TRUE
       IN ScanDir(f, cfg, path, todo \ {fileName}, ScanChild(f, cfg, path, fileName, acc))

\* the loop body that passes over a path it cannot stat
ScanPathSkipMissing(f, cfg, path, acc) ==
  LET st == StatMode(f, path)
  IN IF st.err THEN acc
     ELSE IF IsDir(st.mode)
          THEN IF f[Follow(f, path)].denied THEN [acc EXCEPT !.err = "ErrOpen"]
               ELSE ScanDir(f, cfg, path, Children(f, path), acc)
     ELSE IF Base(path) \in DOMAIN acc.found THEN acc
     ELSE IF filter(cfg, Base(path), st.mode, NilRegExp)
          THEN [acc EXCEPT !.found = (Base(path) :> path) @@ acc.found]
          ELSE acc

\* the loop body that holds a directly given file to the pattern as well
ScanPathPatternOnDirect(f, cfg, path, acc) ==
  LET st == StatMode(f, path)
  IN IF st.err THEN [acc EXCEPT !.err = "ErrStat"]
     ELSE IF IsDir(st.mode)
          THEN IF f[Follow(f, path)].denied THEN [acc EXCEPT !.err = "ErrOpen"]
               ELSE ScanDir(f, cfg, path, Children(f, path), acc)
     ELSE IF Base(path) \in DOMAIN acc.found THEN acc
     ELSE IF filter(cfg, Base(path), st.mode, cfg.RegExpFilter)
          THEN [acc EXCEPT !.found = (Base(path) :> path) @@ acc.found]
          ELSE acc

\* the body of the loop over p.Paths
ScanPath(f, cfg, path, acc) ==
  LET st == StatMode(f, path)
  IN IF st.err THEN [acc EXCEPT !.err = "ErrStat"]
     ELSE IF IsDir(st.mode)
          THEN IF f[Follow(f, path)].denied THEN [acc EXCEPT !.err = "ErrOpen"]
               ELSE ScanDir(f, cfg, path, Children(f, path), acc)
     ELSE IF Base(path) \in DOMAIN acc.found THEN acc
     ELSE IF filter(cfg, Base(path), st.mode, NilRegExp)
          THEN [acc EXCEPT !.found = (Base(path) :> path) @@ acc.found]
          ELSE acc

\* the loop over p.Paths, for its first k paths
RECURSIVE FoundNames(_, _, _, _)
FoundNames(f, cfg, paths, k) ==
  IF k = 0 THEN NoneFound
  ELSE LET acc == FoundNames(f, cfg, paths, k - 1)
       IN IF acc.err # "nil" THEN acc ELSE ScanPath(f, cfg, paths[k], acc)

\* Less comparing the whole paths
LessFullPath(a, b, reverse) ==
  IF reverse THEN Compare(b, a) < 0
  ELSE Compare(a, b) < 0

\* pathsByBasename.Less, and sort.Reverse of it
Less(a, b, reverse) ==
  IF reverse THEN Compare(Base(b), Base(a)) < 0
  ELSE Compare(Base(a), Base(b)) < 0

\* sort.Sort: x put in its place in the sorted list s
RECURSIVE Insert(_, _, _)
Insert(x, s, reverse) ==
  IF s = <<>> THEN <<x>>
  ELSE IF Less(x, Head(s), reverse) THEN <<x>> \o s
  ELSE <<Head(s)>> \o Insert(x, Tail(s), reverse)

\* sort.Sort of the values of foundNames, taken in the map's iteration order
RECURSIVE SortNames(_, _)
SortNames(vals, reverse) ==
  IF vals = {} THEN <<>>
  ELSE LET v == CHOOSE x \in vals : TRUE
       IN Insert(v, SortNames(vals \ {v}, reverse), reverse)

\* the switch without its case n < len(names)
LimitIgnored(names, n) == [names |-> names, err |-> "nil", panic |-> FALSE]

\* the switch on n that ends Readdirnames; names[0:n] panics for a negative n
Limit(names, n) ==
  IF n = 0 THEN [names |-> names, err |-> "nil", panic |-> FALSE]
  ELSE IF n < Len(names)
       THEN IF n < 0 THEN [names |-> <<>>, err |-> "nil", panic |-> TRUE]
            ELSE [names |-> SubSeq(names, 1, n), err |-> "nil", panic |-> FALSE]
  ELSE [names |-> names, err |-> "nil", panic |-> FALSE]

\* Readdirnames down to its sort: the sorted names, or the error of the loop
Resolve(f, paths, cfg) ==
  LET acc == FoundNames(f, cfg, paths, Len(paths))
  IN IF acc.err # "nil" THEN [names |-> <<>>, err |-> acc.err]
     ELSE [names |-> SortNames({acc.found[b] : b \in DOMAIN acc.found}, cfg.Reverse),
           err |-> "nil"]

\* what Readdirnames(n) returns, given what it resolved
Return(resolved, n) ==
  IF resolved.err # "nil" THEN [names |-> <<>>, err |-> resolved.err, panic |-> FALSE]
  ELSE Limit(resolved.names, n)

\* Parts.Readdirnames(n)
Readdirnames(f, paths, cfg, n) == Return(Resolve(f, paths, cfg), n)

----------------------------------------------------------------------------
(* Reading (parts.go, with io.MultiReader and os.File as the Go library    *)
(* documents them).                                                        *)

\* p.readState == nil
NoState == [nil |-> TRUE, Files |-> <<>>, Reader |-> [nil |-> TRUE, next |-> 0]]

\* os.Open: the open file, reading the entry the name leads to
Open(f, name) ==
  LET node == f[Follow(f, name)]
  IN [name |-> name, data |-> node.data, isDir |-> node.kind = "dir", pos |-> 0,
      closed |-> 0]

\* whether os.Open of the name fails
OpenFails(f, name) == ~Exists(f, Follow(f, name)) \/ f[Follow(f, name)].denied

\* os.File.Read into a buffer of len > 0 bytes
FileRead(file, len) ==
  IF file.isDir THEN [file |-> file, bytes |-> <<>>, err |-> "EISDIR"]
  ELSE IF file.pos >= Len(file.data) THEN [file |-> file, bytes |-> <<>>, err |-> "EOF"]
  ELSE LET n == IF Len(file.data) - file.pos < len THEN Len(file.data) - file.pos ELSE len
       IN [file |-> [file EXCEPT !.pos = file.pos + n],
           bytes |-> SubSeq(file.data, file.pos + 1, file.pos + n),
           err |-> "nil"]

\* a Read that reports the end of the stream at the end of its current file
MultiReadToFirstEOF(files, next, len) ==
  IF next > Len(files)
  THEN [files |-> files, next |-> next, bytes |-> <<>>, err |-> "EOF"]
  ELSE LET r == FileRead(files[next], len)
       IN [files |-> [files EXCEPT ![next] = r.file], next |-> next,
           bytes |-> r.bytes, err |-> r.err]

\* io.MultiReader's Read: files from next on are the readers that remain
RECURSIVE MultiRead(_, _, _)
MultiRead(files, next, len) ==
  IF next > Len(files)
  THEN [files |-> files, next |-> next, bytes |-> <<>>, err |-> "EOF"]
  ELSE LET r == FileRead(files[next], len)
           files1 == [files EXCEPT ![next] = r.file]
           next1 == IF r.err = "EOF" THEN next + 1 ELSE next
       IN IF Len(r.bytes) > 0 \/ r.err # "EOF"
          THEN [files |-> files1, next |-> next1, bytes |-> r.bytes,
                err |-> IF r.err = "EOF" /\ next1 <= Len(files) THEN "nil" ELSE r.err]
          ELSE MultiRead(files1, next1, len)

\* the loop of Read that opens the found files: the files opened before the
\* first failure, and whether there was one
RECURSIVE OpenAll(_, _, _)
OpenAll(f, foundFiles, files) ==
  IF foundFiles = <<>> THEN [Files |-> files, failed |-> FALSE]
  ELSE IF OpenFails(f, Head(foundFiles)) THEN [Files |-> files, failed |-> TRUE]
  ELSE OpenAll(f, Tail(foundFiles), Append(files, Open(f, Head(foundFiles))))

\* a call's return value (op, n, names, bytes, mode, str, err, panic), with its
\* history: at is the value of changes at the call, fresh whether the session had
\* no read state at the call, reopen whether the call before it was a Close that
\* tore a read state down, released and failed count the files Close closed and
\* the ones whose Close failed. The fields a method does not return keep these
\* values.
NoReturn ==
  [op |-> "none", n |-> 0, names |-> <<>>, err |-> "nil", panic |-> FALSE,
   bytes |-> <<>>, mode |-> {}, str |-> <<>>, at |-> 0, fresh |-> FALSE,
   reopen |-> FALSE, failed |-> 0, released |-> 0]

----------------------------------------------------------------------------
(* The initial states: a file system, a path list and a configuration.     *)

\* 0644, 0755, 0200
Perm644 == {2, 5, 7, 8}
Perm755 == {0, 2, 3, 5, 6, 7, 8}
Perm200 == {7}

\* "e", "u", "t.c", "n", "u/4" and the file names "1.c", "2.c", "1.s", "4"
DirE == <<101>>
DirU == <<117>>
FileT == <<116, 46, 99>>
NoEntry == <<110>>
Name1c == <<49, 46, 99>>
Name2c == <<50, 46, 99>>
Name1s == <<49, 46, 115>>
Name4 == <<52>>
FileU4 == Join(DirU, Name4)

\* what e/1.c can be: a regular file, a regular file without permission bits, a
\* directory; and for the sessions that are read a write-only file that cannot
\* be opened for reading
VariantsA == {Reg(Perm644, <<1, 2>>), Reg({}, <<1, 2>>), Dir(Perm755, {})}
ReadVariantsA ==
  {Reg(Perm644, <<1, 2>>), Dir(Perm755, {}), Unreadable(Perm200, <<1, 2>>)}

\* what u/1.c can be: a regular file, a dangling symbolic link
VariantsB == {Reg(Perm644, <<4, 5>>), Link(NoEntry)}

\* the layout of the package documentation, cut down: e/2.c is a symbolic link,
\* u/1.s is executable, u/4 is empty and has no extension, n does not exist
Layout(a, b) ==
  (DirE :> Dir(Perm755, {Name1c, Name2c, Name4})) @@ (Join(DirE, Name1c) :> a)
    @@ (Join(DirE, Name2c) :> Link(FileT)) @@ (Join(DirE, Name4) :> Reg(Perm755, <<3>>))
    @@ (FileT :> Reg(Perm644, <<6>>))
    @@ (DirU :> Dir(Perm755, {Name1c, Name1s, Name4})) @@ (Join(DirU, Name1c) :> b)
    @@ (Join(DirU, Name1s) :> Reg(Perm755, <<7>>)) @@ (FileU4 :> Reg(Perm644, <<>>))
    @@ (NoEntry :> Absent)

\* the paths the lists are drawn from
PathUniverse == {DirE, DirU, FileT, FileU4}

\* the paths given to the sessions that are read
ReadPathUniverse == {DirE, DirU, FileT}

\* the path lists of the package documentation and of the tests
ScenarioPaths == {<<DirE, FileT, DirU>>, <<FileT, DirE, DirU>>, <<NoEntry>>, <<DirU, NoEntry>>}

\* lists of at most max different paths, and the scenario lists
PathLists(universe, max) ==
  ScenarioPaths \cup
  UNION {{s \in [1..k -> universe] : \A i, j \in 1..k : i # j => s[i] # s[j]} :
           k \in 0..max}

\* "\.c$", standing for the tests' "\.conf$"
ConfRegExpFilter == Compiled(FALSE, <<46, 99>>)

\* NewConfig: every combination of the masks and patterns the tests use
Configs ==
  [Reverse : BOOLEAN,
   ModeTypeFilter : {DefaultModeTypeFilter, ModeType},
   ModePermFilter : {DefaultModePermFilter, ExecutableModePermFilter},
   RegExpFilter : {DefaultRegExpFilter, ConfRegExpFilter}]

\* NewConfig as the tests call it: all files, executables, *.c files; and
\* NewDefaultConfig
TestConfigs ==
  {[Reverse |-> FALSE, ModeTypeFilter |-> c[1], ModePermFilter |-> c[2],
    RegExpFilter |-> c[3]] :
     c \in {<<ModeType, ModePerm, DefaultRegExpFilter>>,
            <<ExecutableModeTypeFilter, ExecutableModePermFilter, DefaultRegExpFilter>>,
            <<DefaultModeTypeFilter, DefaultModePermFilter, ConfRegExpFilter>>,
            <<DefaultModeTypeFilter, DefaultModePermFilter, DefaultRegExpFilter>>}}

\* the modes String is applied to: every combination of some type bits, some
\* permission bits and a bit String does not render, every single bit, and the
\* modes of the tests (0666 and 0775 with ModeRegular, 0775 with ModeDir,
\* ModeType | ModePerm)
ModeSamples ==
  {a \cup b : a \in SUBSET {31, 27, 20, 19}, b \in SUBSET {12, 8, 0}}
    \cup {{i} : i \in 0..31}
    \cup {ModeRegular \cup {8, 7, 5, 4, 2, 1}, ModeRegular \cup (ModePerm \ {1}),
          ModeDir \cup (ModePerm \ {1}), ModeType \cup ModePerm}

\* the file systems the stat functions are called on
InitMode ==
  /\ fs \in {Layout(Reg(Perm644, <<1, 2>>), b) : b \in VariantsB}
  /\ Paths = <<>>
  /\ Config = [Reverse |-> FALSE, ModeTypeFilter |-> DefaultModeTypeFilter,
               ModePermFilter |-> DefaultModePermFilter,
               RegExpFilter |-> DefaultRegExpFilter]
  /\ readState = NoState
  /\ ret = NoReturn
  /\ out = <<>>
  /\ born = 0
  /\ changes = 0

\* NewDefaultConfig, the configuration NewParts gives a session created with nil
NewDefaultConfig ==
  [Reverse |-> FALSE, ModeTypeFilter |-> DefaultModeTypeFilter,
   ModePermFilter |-> DefaultModePermFilter, RegExpFilter |-> DefaultRegExpFilter]

\* NewParts, for the sessions that are read
Init ==
  /\ fs \in {Layout(a, Reg(Perm644, <<4, 5>>)) : a \in ReadVariantsA}
  /\ Paths \in PathLists(ReadPathUniverse, MaxReadPaths)
  /\ Config \in TestConfigs
  /\ readState = NoState
  /\ ret = NoReturn
  /\ out = <<>>
  /\ born = 0
  /\ changes = 0

\* NewParts, for the sessions that are only resolved
InitResolve ==
  /\ fs \in {Layout(a, b) : a \in VariantsA, b \in VariantsB}
  /\ Paths \in PathLists(PathUniverse, MaxPaths)
  /\ Config \in Configs
  /\ readState = NoState
  /\ ret = NoReturn
  /\ out = <<>>
  /\ born = 0
  /\ changes = 0

----------------------------------------------------------------------------
(* The calls on a session, and the changes of its environment.             *)

\* Readdirnames that drops the session's read state
CallReaddirnamesResets ==
  LET resolved == Resolve(fs, Paths, Config)
  IN \E n \in -1..MaxN :
       LET r == Return(resolved, n)
       IN /\ ret' = [NoReturn EXCEPT !.op = "Readdirnames", !.n = n, !.names = r.names,
                                     !.err = r.err, !.panic = r.panic, !.at = changes]
          /\ readState' = NoState
          /\ UNCHANGED <<fs, Paths, Config, out, born, changes>>

\* names, err := p.Readdirnames(n), for each n the model draws
CallReaddirnames ==
  LET resolved == Resolve(fs, Paths, Config)
  IN \E n \in -1..MaxN :
       LET r == Return(resolved, n)
       IN /\ ret' = [NoReturn EXCEPT !.op = "Readdirnames", !.n = n, !.names = r.names,
                                     !.err = r.err, !.panic = r.panic, !.at = changes]
          /\ UNCHANGED <<fs, Paths, Config, readState, out, born, changes>>

\* the first part of a Read that resolves and opens the files at every call
InitializeAgain(f, paths, cfg, rs) ==
  LET found == Readdirnames(f, paths, cfg, 0)
      opened == OpenAll(f, found.names, <<>>)
  IN IF found.err # "nil" THEN [rs |-> rs, err |-> found.err]
     ELSE IF opened.failed
          THEN [rs |-> [nil |-> FALSE, Files |-> opened.Files,
                        Reader |-> [nil |-> TRUE, next |-> 0]],
                err |-> "ErrOpen"]
     ELSE [rs |-> [nil |-> FALSE, Files |-> opened.Files,
                   Reader |-> [nil |-> FALSE, next |-> 1]],
           err |-> "nil"]

\* the first part of Read: the read state it leaves, and the error it returns
\* from there ("nil" when it goes on to read)
Initialize(f, paths, cfg, rs) ==
  IF ~rs.nil THEN [rs |-> rs, err |-> "nil"]
  ELSE LET found == Readdirnames(f, paths, cfg, 0)
           opened == OpenAll(f, found.names, <<>>)
       IN IF found.err # "nil" THEN [rs |-> rs, err |-> found.err]
          ELSE IF opened.failed
               THEN [rs |-> [nil |-> FALSE, Files |-> opened.Files,
                             Reader |-> [nil |-> TRUE, next |-> 0]],
                     err |-> "ErrOpen"]
          ELSE [rs |-> [nil |-> FALSE, Files |-> opened.Files,
                        Reader |-> [nil |-> FALSE, next |-> 1]],
                err |-> "nil"]

\* n, err := p.Read(b) with len(b) = len; Read on a nil Reader panics
CallRead(len) ==
  LET init == Initialize(fs, Paths, Config, readState)
      r == MultiRead(init.rs.Files, init.rs.Reader.next, len)
  IN /\ born' = IF readState.nil /\ ~init.rs.nil THEN changes ELSE born
     /\ IF init.err # "nil"
        THEN /\ readState' = init.rs
             /\ ret' = [NoReturn EXCEPT !.op = "Read", !.err = init.err, !.at = changes,
                                        !.fresh = readState.nil,
                                        !.reopen = (ret.op = "Close" /\ ~ret.fresh)]
             /\ out' = out
        ELSE IF init.rs.Reader.nil
        THEN /\ readState' = init.rs
             /\ ret' = [NoReturn EXCEPT !.op = "Read", !.panic = TRUE, !.at = changes]
             /\ out' = out
        ELSE /\ readState' = [init.rs EXCEPT !.Files = r.files, !.Reader.next = r.next]
             /\ ret' = [NoReturn EXCEPT !.op = "Read", !.bytes = r.bytes, !.err = r.err,
                                        !.at = changes, !.fresh = readState.nil,
                                        !.reopen = (ret.op = "Close" /\ ~ret.fresh)]
             /\ out' = out \o r.bytes
     /\ UNCHANGED <<fs, Paths, Config, changes>>

\* the error Close returns after the loop over p.readState.Files, given the
\* errors ("nil" or not) the files' Close calls returned, in order
RECURSIVE CloseErr(_, _)
CloseErr(tmpErrs, err) ==
  IF tmpErrs = <<>> THEN err
  ELSE CloseErr(Tail(tmpErrs),
                IF Head(tmpErrs) # "nil" /\ err # "nil" THEN Head(tmpErrs) ELSE err)

\* Close without its test for a nil read state: p.readState.Files panics
CallCloseUnguarded(bad) ==
  IF readState.nil
  THEN /\ ret' = [NoReturn EXCEPT !.op = "Close", !.at = changes, !.fresh = TRUE,
                                  !.panic = TRUE]
       /\ UNCHANGED <<fs, Paths, Config, readState, out, born, changes>>
  ELSE /\ ret' = [NoReturn EXCEPT !.op = "Close", !.at = changes,
                                  !.failed = Cardinality(bad),
                                  !.released = Len(readState.Files)]
       /\ readState' = NoState
       /\ out' = <<>>
       /\ UNCHANGED <<fs, Paths, Config, born, changes>>

\* Close that closes the files and keeps the read state
CallCloseKeepsState(bad) ==
  IF readState.nil
  THEN /\ ret' = [NoReturn EXCEPT !.op = "Close", !.at = changes, !.fresh = TRUE]
       /\ UNCHANGED <<fs, Paths, Config, readState, out, born, changes>>
  ELSE /\ ret' = [NoReturn EXCEPT !.op = "Close", !.at = changes,
                                  !.failed = Cardinality(bad),
                                  !.released = Len(readState.Files)]
       /\ readState' = [readState EXCEPT
                          !.Files = [i \in 1..Len(readState.Files) |->
                                       [readState.Files[i] EXCEPT !.closed = 1]]]
       /\ UNCHANGED <<fs, Paths, Config, out, born, changes>>

\* Close that leaves its loop at the first file whose Close fails
CallCloseStopsAtFailure(bad) ==
  IF readState.nil
  THEN /\ ret' = [NoReturn EXCEPT !.op = "Close", !.at = changes, !.fresh = TRUE]
       /\ UNCHANGED <<fs, Paths, Config, readState, out, born, changes>>
  ELSE /\ ret' = [NoReturn EXCEPT !.op = "Close", !.at = changes,
                                  !.failed = IF bad = {} THEN 0 ELSE 1,
                                  !.released =
                                    IF bad = {} THEN Len(readState.Files)
                                    ELSE CHOOSE i \in bad : \A j \in bad : i <= j]
       /\ readState' = NoState
       /\ out' = <<>>
       /\ UNCHANGED <<fs, Paths, Config, born, changes>>

\* the sets of files whose Close may fail together: none, any one, all of them
FailingSets(n) == {{}} \cup {{i} : i \in 1..n} \cup {1..n}

\* err := p.Close(); bad are the files whose Close fails
CallClose(bad) ==
  IF readState.nil
  THEN /\ ret' = [NoReturn EXCEPT !.op = "Close", !.at = changes, !.fresh = TRUE]
       /\ UNCHANGED <<fs, Paths, Config, readState, out, born, changes>>
  ELSE LET tmpErrs == [i \in 1..Len(readState.Files) |->
                         IF i \in bad THEN "ErrClose" ELSE "nil"]
       IN /\ ret' = [NoReturn EXCEPT !.op = "Close", !.err = CloseErr(tmpErrs, "nil"),
                                     !.at = changes, !.failed = Cardinality(bad),
                                     !.released = Len(readState.Files)]
          /\ readState' = NoState
          /\ out' = <<>>
          /\ UNCHANGED <<fs, Paths, Config, born, changes>>

\* m.String()
CallString(m) ==
  /\ ret' = [NoReturn EXCEPT !.op = "String", !.mode = m, !.str = String(m),
                             !.at = changes]
  /\ UNCHANGED <<fs, Paths, Config, readState, out, born, changes>>

\* mode, err := StatMode(name)
CallStatMode(name) ==
  LET r == StatMode(fs, name)
  IN /\ ret' = [NoReturn EXCEPT !.op = "StatMode", !.names = <<name>>, !.mode = r.mode,
                                !.err = IF r.err THEN "ErrStat" ELSE "nil",
                                !.at = changes]
     /\ UNCHANGED <<fs, Paths, Config, readState, out, born, changes>>

\* mode, err := LstatMode(name)
CallLstatMode(name) ==
  LET r == LstatMode(fs, name)
  IN /\ ret' = [NoReturn EXCEPT !.op = "LstatMode", !.names = <<name>>, !.mode = r.mode,
                                !.err = IF r.err THEN "ErrStat" ELSE "nil",
                                !.at = changes]
     /\ UNCHANGED <<fs, Paths, Config, readState, out, born, changes>>

\* the environment removes a file
Unlink(path) ==
  /\ changes < MaxChanges
  /\ Exists(fs, path)
  /\ fs' = [fs EXCEPT ![path] = Absent]
  /\ changes' = changes + 1
  /\ UNCHANGED <<Paths, Config, readState, ret, out, born>>

\* the caller sets p.Config.Reverse
SetReverse(reverse) ==
  /\ changes < MaxChanges
  /\ Config.Reverse # reverse
  /\ Config' = [Config EXCEPT !.Reverse = reverse]
  /\ changes' = changes + 1
  /\ UNCHANGED <<fs, Paths, readState, ret, out, born>>

\* the files the environment may remove
Removable == {FileT, Join(DirE, Name1c)}

Next ==
  \/ CallReaddirnames
  \/ \E len \in 1..MaxBuf : CallRead(len)
  \/ \E bad \in FailingSets(Len(readState.Files)) : CallClose(bad)
  \/ \E path \in Removable : Unlink(path)
  \/ \E reverse \in BOOLEAN : SetReverse(reverse)

Spec == Init /\ [][Next]_vars

\* a session on which only Readdirnames is called; InitResolve draws Reverse
NextResolve ==
  \/ CallReaddirnames
  \/ \E path \in Removable : Unlink(path)

SpecResolve == InitResolve /\ [][NextResolve]_vars

\* the functions of the package that take no session
NextMode ==
  \/ \E m \in ModeSamples : CallString(m)
  \/ \E name \in DOMAIN fs : CallStatMode(name)
  \/ \E name \in DOMAIN fs : CallLstatMode(name)
  \/ \E path \in Removable : Unlink(path)

SpecMode == InitMode /\ [][NextMode]_vars

----------------------------------------------------------------------------
(* What the claims are stated with. *)

Range(s) == {s[i] : i \in 1..Len(s)}

ReverseSeq(s) == [i \in 1..Len(s) |-> s[Len(s) + 1 - i]]

\* the last call was Readdirnames, and nothing has changed since
Listed == ret.op = "Readdirnames" /\ ret.at = changes

\* path is a directory
FromDir(path) ==
  LET st == StatMode(fs, path) IN ~st.err /\ IsDir(st.mode)

\* the entries a path supplies, by full path: a directory's children, or the
\* path itself
Supplied(path) ==
  IF StatMode(fs, path).err THEN {}
  ELSE IF FromDir(path) THEN {Join(path, c) : c \in Children(fs, path)}
  ELSE {path}

\* two different entries with the same base name
SameBase(a, b) == a # b /\ Base(a) = Base(b)

\* no path before Paths[i] supplies an entry with the base name of a
FirstSupplier(i, a) ==
  \A k \in 1..(i - 1) : \A c \in Supplied(Paths[k]) : Base(c) # Base(a)

\* entry c of path has a mode that meets both masks by at least one bit and,
\* when path is a directory, a base name that matches the pattern
Passes(path, c) ==
  LET st == StatMode(fs, c)
  IN /\ ~st.err
     /\ st.mode \cap Config.ModePermFilter # {}
     /\ st.mode \cap Config.ModeTypeFilter # {}
     /\ FromDir(path) => MatchString(Config.RegExpFilter, Base(c))

\* the result holds a and not b, for the base name the two share
Wins(a, b) ==
  /\ ~ret.panic
  /\ b \notin Range(ret.names)
  /\ \A x \in Range(ret.names) : Base(x) = Base(a) => x = a

----------------------------------------------------------------------------
(* C1, as claimed: when path A comes before path B and both supply an      *)
(* entry with the same base name (A being the first path that supplies     *)
(* one), Readdirnames never returns the full path under B and returns that *)
(* base name only with the path under A, whatever the filters and the      *)
(* modes of the two entries. Refuted: an entry under A that the filters    *)
(* reject is not recorded, and the entry under B is returned.              *)
C1_PrecedenceForAnyModes ==
  (Listed /\ ret.n >= 0) =>
    \A i, j \in 1..Len(Paths) : i < j =>
      \A a \in Supplied(Paths[i]), b \in Supplied(Paths[j]) :
        (SameBase(a, b) /\ FirstSupplier(i, a)) => Wins(a, b)

(* C1, amended: the same, for an entry under A that passes the filters     *)
(* applied to it (both masks, and the pattern when A is a directory).      *)
C1_Precedence ==
  (Listed /\ ret.n >= 0) =>
    \A i, j \in 1..Len(Paths) : i < j =>
      \A a \in Supplied(Paths[i]), b \in Supplied(Paths[j]) :
        (SameBase(a, b) /\ FirstSupplier(i, a) /\ Passes(Paths[i], a)) => Wins(a, b)

\* two paths supplied the same base name, and the result holds the first one's
C1_Witness ==
  /\ Listed
  /\ \E i, j \in 1..Len(Paths) :
       /\ i < j
       /\ \E a \in Supplied(Paths[i]), b \in Supplied(Paths[j]) :
            /\ SameBase(a, b) /\ FirstSupplier(i, a) /\ Passes(Paths[i], a)
            /\ Passes(Paths[j], b)
            /\ a \in Range(ret.names)

(* C2: the list Readdirnames returns holds no two full paths with the same *)
(* base name, for every path list, configuration and limit.                *)
C2_NoDuplicateBaseNames ==
  ret.op = "Readdirnames" =>
    \A i, j \in 1..Len(ret.names) :
      i # j => Base(ret.names[i]) # Base(ret.names[j])

\* a list of several names, resolved from paths that supplied one base name twice
C2_Witness ==
  /\ Listed
  /\ Len(ret.names) >= 2
  /\ \E i, j \in 1..Len(Paths) :
       /\ i < j
       /\ \E a \in Supplied(Paths[i]), b \in Supplied(Paths[j]) :
            SameBase(a, b) /\ Passes(Paths[i], a) /\ Passes(Paths[j], b)

\* the base names of the list ascend strictly under strings.Compare
Ascending(names) ==
  \A i \in 1..(Len(names) - 1) : Compare(Base(names[i]), Base(names[i + 1])) < 0

C4_Limit ==
  (Listed /\ ret.n >= 0 /\ ret.err = "nil") =>
    LET full == Readdirnames(fs, Paths, Config, 0).names
    IN /\ ~ret.panic
       /\ (0 < ret.n /\ ret.n < Len(full)) => ret.names = SubSeq(full, 1, ret.n)
       /\ (ret.n = 0 \/ ret.n >= Len(full)) => ret.names = full

\* a limit that cut the list
C4_Witness ==
  /\ Listed /\ ret.err = "nil"
  /\ 0 < ret.n /\ ret.n < Len(Readdirnames(fs, Paths, Config, 0).names)
  /\ Len(ret.names) = ret.n

(* C5: when resolution succeeds, an entry whose base name was not recorded *)
(* from an earlier path is recorded, and so is in the result, iff its mode *)
(* and the permission mask share a bit, its mode and the type mask share a *)
(* bit and, for an entry found by listing a directory, its base name       *)
(* matches the pattern.                                                    *)
C5_Filtering ==
  (Listed /\ ret.n = 0 /\ ret.err = "nil") =>
    \A k \in 1..Len(Paths) : \A c \in Supplied(Paths[k]) :
      LET earlier == FoundNames(fs, Config, Paths, k - 1).found
          found == FoundNames(fs, Config, Paths, k).found
      IN Base(c) \notin DOMAIN earlier =>
           ((/\ Base(c) \in DOMAIN found
             /\ found[Base(c)] = c
             /\ c \in Range(ret.names)) <=> Passes(Paths[k], c))

\* an entry is in the result whose mode holds some of the permission mask's bits,
\* not all, and another entry of the same path is not
C5_Witness ==
  /\ Listed /\ ret.n = 0 /\ ret.err = "nil"
  /\ \E k \in 1..Len(Paths) : \E c, d \in Supplied(Paths[k]) :
       /\ c \in Range(ret.names)
       /\ StatMode(fs, c).mode \cap Config.ModePermFilter
            \notin {{}, Config.ModePermFilter}
       /\ d \notin Range(ret.names)
       /\ ~Passes(Paths[k], d)

\* the contents of the named files, one after the other
RECURSIVE ConcatData(_, _)
ConcatData(f, names) ==
  IF names = <<>> THEN <<>>
  ELSE f[Follow(f, Head(names))].data \o ConcatData(f, Tail(names))

\* s is the beginning of t
IsPrefix(s, t) == Len(s) <= Len(t) /\ s = SubSeq(t, 1, Len(s))

\* the last call was Read, and nothing has changed since the session's read
\* state was created
Streaming == ret.op = "Read" /\ ~readState.nil /\ born = changes

(* C6: on a session whose files and configuration stay as they are, the    *)
(* bytes Read has delivered since the read state was created are always    *)
(* the beginning of the concatenation, in the order of Readdirnames(0), of *)
(* the contents of the resolved files, and are all of it when Read reports *)
(* the end of the stream, for every buffer size.                           *)
C6_StreamIsConcatenation ==
  Streaming =>
    LET all == ConcatData(fs, Readdirnames(fs, Paths, Config, 0).names)
    IN /\ IsPrefix(out, all)
       /\ ret.err = "EOF" => out = all

\* the end of a stream of several files, one of them empty
C6_Witness ==
  /\ Streaming /\ ret.err = "EOF"
  /\ Len(readState.Files) >= 3 /\ Len(out) >= 3
  /\ \E i \in 1..Len(readState.Files) : readState.Files[i].data = <<>>

\* a path of the session's list cannot be stat'd
Unstatable == \E i \in 1..Len(Paths) : StatMode(fs, Paths[i]).err

(* C7, as claimed: if a path of the session's list cannot be stat'd,       *)
(* Readdirnames returns an error and an empty list, and Read on the        *)
(* session returns an error (not the end of the stream) and no bytes.      *)
(* Refuted: a session that holds a read state goes on reading the files it *)
(* has opened.                                                             *)
C7_ReadAlwaysFails ==
  Unstatable =>
    /\ Listed => (ret.err # "nil" /\ ret.names = <<>>)
    /\ (ret.op = "Read" /\ ret.at = changes) =>
         (ret.err \notin {"nil", "EOF"} /\ ret.bytes = <<>> /\ ~ret.panic)

(* C7, amended: the same, for Read on a session that holds no read state   *)
(* (so that Read resolves the paths).                                      *)
C7_UnstatablePath ==
  Unstatable =>
    /\ Listed => (ret.err # "nil" /\ ret.names = <<>> /\ ~ret.panic)
    /\ (ret.op = "Read" /\ ret.at = changes /\ ret.fresh) =>
         (ret.err \notin {"nil", "EOF"} /\ ret.bytes = <<>> /\ ~ret.panic
            /\ readState.nil)

\* Read failed on a path that cannot be stat'd and that follows a path whose
\* entries pass the filters
C7_Witness ==
  /\ ret.op = "Read" /\ ret.at = changes /\ ret.fresh /\ ret.err = "ErrStat"
  /\ \E i \in 1..Len(Paths) :
       /\ StatMode(fs, Paths[i]).err
       /\ \E j \in 1..(i - 1) : \E c \in Supplied(Paths[j]) : Passes(Paths[j], c)

(* C8, as claimed: when the first Read fails in resolution or in opening   *)
(* one of the resolved files, the session is left with no read state.      *)
(* The code keeps the read state it was building: the files opened so far  *)
(* and no Reader.                                                          *)
C8_NoPartialReadState ==
  (ret.op = "Read" /\ ret.fresh /\ ret.err \in {"ErrStat", "ErrOpen"}) => readState.nil

(* C9, as claimed: Close returns an error iff the Close of at least one of *)
(* the files of the read state failed. The code returns nil whatever the   *)
(* files' Close calls returned.                                            *)
C9_CloseReportsFailure ==
  ret.op = "Close" => (ret.failed > 0 <=> ret.err # "nil")

(* C10: Close on a session that has no read state returns no error and     *)
(* changes nothing, and every Close leaves the session without read state, *)
(* so that a second Close is of that kind.                                 *)
C10_CloseWithoutReadState ==
  [][(ret'.op = "Close" /\ ret' # ret) =>
       /\ readState'.nil
       /\ readState.nil =>
            /\ ret'.err = "nil" /\ ~ret'.panic
            /\ UNCHANGED <<fs, Paths, Config, readState, out, born, changes>>]_vars

\* Close has returned on a session that had no read state
C10_Witness == ret.op = "Close" /\ ret.fresh /\ readState.nil /\ ret.err = "nil"

\* the names of the open files, in their order
FileNames(files) == [i \in 1..Len(files) |-> files[i].name]

\* the contents the open files had when they were opened, one after the other
RECURSIVE ConcatOpened(_)
ConcatOpened(files) ==
  IF files = <<>> THEN <<>> ELSE Head(files).data \o ConcatOpened(Tail(files))

\* the last call was a Read on a session without read state, and nothing has
\* changed since
FirstRead == ret.op = "Read" /\ ret.fresh /\ ret.at = changes

(* C11: after Close the session has no read state, and a Read on a session *)
(* without read state resolves the session's paths under its configuration *)
(* as they are at that call, opens the resolved files in the resolved      *)
(* order and delivers the first bytes of their concatenation, whatever an  *)
(* earlier pass had read.                                                  *)
C11_FreshPassAfterClose ==
  /\ ret.op = "Close" => (readState.nil /\ out = <<>>)
  /\ FirstRead =>
       LET found == Readdirnames(fs, Paths, Config, 0)
       IN IF found.err # "nil" THEN ret.err = found.err /\ ret.bytes = <<>>
          ELSE IF \E name \in Range(found.names) : OpenFails(fs, name)
               THEN ret.err = "ErrOpen" /\ ret.bytes = <<>>
          ELSE /\ ~readState.nil /\ FileNames(readState.Files) = found.names
               /\ out = ret.bytes
               /\ IsPrefix(ret.bytes, ConcatData(fs, found.names))
               /\ ret.err = "nil" => ret.bytes # <<>>

\* a Read that follows the Close of a read state and a change, and delivers bytes
C11_Witness ==
  /\ FirstRead /\ ret.reopen /\ ret.bytes # <<>>
  /\ changes > 0 /\ born = changes

\* every reader of the read state has reported its end
EndReported ==
  ~readState.nil /\ ~readState.Reader.nil
    /\ readState.Reader.next > Len(readState.Files)

\* io.EOF comes only when every opened file has been read to its end, and
\* at once when there is no file
EndAfterEveryByte ==
  /\ (ret.op = "Read" /\ ret.err = "EOF") =>
       /\ EndReported /\ ret.bytes = <<>> /\ ~ret.panic
       /\ \A i \in 1..Len(readState.Files) :
            readState.Files[i].pos = Len(readState.Files[i].data)
       /\ out = ConcatOpened(readState.Files)
  /\ (FirstRead /\ Readdirnames(fs, Paths, Config, 0) =
                     [names |-> <<>>, err |-> "nil", panic |-> FALSE]) =>
       (ret.err = "EOF" /\ ret.bytes = <<>>)

(* C12: Read returns io.EOF only when every byte of every opened file has  *)
(* been delivered; from then on every Read before Close returns no bytes   *)
(* and io.EOF; and the first Read of a session that resolves to no file    *)
(* returns no bytes and io.EOF.                                            *)
C12_EndOfStream ==
  /\ []EndAfterEveryByte
  /\ [][(EndReported /\ ret'.op = "Read" /\ ret' # ret) =>
          (ret'.err = "EOF" /\ ret'.bytes = <<>> /\ readState' = readState)]_vars

\* the end of a stream of two files or more, reported by a Read that found the
\* read state in place
C12_Witness ==
  /\ ret.op = "Read" /\ ret.err = "EOF" /\ ~ret.fresh
  /\ Len(readState.Files) >= 2 /\ Len(out) >= 2

\* a full list that Readdirnames(0) has just returned
FullList == Listed /\ ret.n = 0 /\ ret.err = "nil" /\ ~ret.panic

DocScenario ==
  /\ fs = Layout(Reg(Perm644, <<1, 2>>), Reg(Perm644, <<4, 5>>))
  /\ Paths = <<DirE, FileT, DirU>>
  /\ Config.ModeTypeFilter = DefaultModeTypeFilter
  /\ Config.ModePermFilter = DefaultModePermFilter
  /\ Config.RegExpFilter = ConfRegExpFilter

(* C14: in the documented scenario (paths e, t.c, u; default masks; the    *)
(* pattern "\.c$") Readdirnames(0) returns exactly [e/1.c, e/2.c, t.c] in  *)
(* forward order and exactly [t.c, e/2.c, e/1.c] in reverse order.         *)
C14_Scenario ==
  (FullList /\ DocScenario) =>
    ret.names = IF Config.Reverse
                THEN <<FileT, Join(DirE, Name2c), Join(DirE, Name1c)>>
                ELSE <<Join(DirE, Name1c), Join(DirE, Name2c), FileT>>

\* the scenario listed in reverse order
C14_Witness ==
  FullList /\ DocScenario /\ Config.Reverse /\ Len(ret.names) = 3 /\ ret.names[1] = FileT

\* the positions, in "dalTLDpSugctf", of the type letters whose bit is set in m
Flagged(m) == {i \in 1..Len(TypeLetters) : (32 - i) \in m}

(* C15: for every mode, String returns the letters of "dalTLDpSugctf"      *)
(* whose bits (31 down to 19) are set, in that order, or "-" when none of  *)
(* them is set, followed by exactly 9 characters, the i-th being the i-th  *)
(* letter of "rwxrwxrwx" when bit 9 - i is set and "-" otherwise;          *)
(* ModeRegular|0666 gives "frw-rw-rw-" and ModeType|ModePerm gives         *)
(* "dLDpSfrwxrwxrwx".                                                      *)
C15_String ==
  ret.op = "String" =>
    LET flagged == Flagged(ret.mode)
        k == IF flagged = {} THEN 1 ELSE Cardinality(flagged)
    IN /\ Len(ret.str) = k + 9
       /\ flagged = {} => ret.str[1] = "-"
       /\ \A i \in flagged :
            ret.str[Cardinality({j \in flagged : j <= i})] = TypeLetters[i]
       /\ \A i \in 1..9 : ret.str[k + i] = IF (9 - i) \in ret.mode THEN Rwx[i] ELSE "-"
       /\ ret.mode = ModeRegular \cup {8, 7, 5, 4, 2, 1} =>
            ret.str = <<"f", "r", "w", "-", "r", "w", "-", "r", "w", "-">>
       /\ ret.mode = ModeType \cup ModePerm =>
            ret.str = <<"d", "L", "D", "p", "S", "f",
                        "r", "w", "x", "r", "w", "x", "r", "w", "x">>

\* String of a mode without type bit and with some permission bit
C15_Witness ==
  /\ ret.op = "String" /\ Flagged(ret.mode) = {} /\ ret.mode \cap ModePerm # {}
  /\ Len(ret.str) = 10 /\ ret.str[1] = "-"

\* the path a stat function was just called on
Statted == IF ret.names = <<>> THEN NoEntry ELSE ret.names[1]

\* name is a symbolic link whose target exists (and is no link)
LinkToEntry(name) ==
  /\ Exists(fs, name) /\ fs[name].kind = "link"
  /\ Exists(fs, fs[name].target) /\ fs[fs[name].target].kind # "link"

(* C16: on a symbolic link to an existing entry LstatMode returns a mode   *)
(* with ModeSymlink set, and StatMode returns the mode of the entry the    *)
(* link leads to, without ModeSymlink; on a path that has no entry both    *)
(* return the zero mode and an error, and so does StatMode on a link whose *)
(* target has no entry.                                                    *)
C16_SymlinkDistinction ==
  (ret.op \in {"StatMode", "LstatMode"} /\ ret.at = changes) =>
    /\ (ret.op = "LstatMode" /\ LinkToEntry(Statted)) =>
         (ret.err = "nil" /\ ModeSymlink \subseteq ret.mode)
    /\ (ret.op = "StatMode" /\ LinkToEntry(Statted)) =>
         LET target == fs[fs[Statted].target]
         IN /\ ret.err = "nil" /\ ret.mode \cap ModeSymlink = {}
            /\ ret.mode = OsMode(target) \cup
                            (IF target.kind = "reg" THEN ModeRegular ELSE {})
    /\ ~Exists(fs, Statted) => (ret.err # "nil" /\ ret.mode = {})
    /\ (ret.op = "StatMode" /\ Exists(fs, Statted) /\ fs[Statted].kind = "link"
          /\ ~Exists(fs, fs[Statted].target)) => (ret.err # "nil" /\ ret.mode = {})

\* StatMode has followed a link that LstatMode reports as a link
C16_Witness ==
  /\ ret.op = "StatMode" /\ ret.at = changes /\ LinkToEntry(Statted)
  /\ ModeRegular \subseteq ret.mode
  /\ ModeSymlink \subseteq LstatMode(fs, Statted).mode

\* nothing keeps the k-th path from being scanned to its end, if a child that
\* cannot be stat'd is passed over when its name was recorded from an earlier path
ScansIfShadowedSkipped(k) ==
  LET path == Paths[k]
      earlier == FoundNames(fs, Config, Paths, k - 1).found
  IN /\ ~StatMode(fs, path).err
     /\ FromDir(path) =>
          /\ ~fs[Follow(fs, path)].denied
          /\ \A c \in Children(fs, path) :
               StatMode(fs, Join(path, c)).err => c \in DOMAIN earlier

(* C17, as claimed: a child of a directory whose base name is recorded     *)
(* from an earlier path is passed over before its mode is asked for, so    *)
(* that Readdirnames succeeds when the only entries that cannot be stat'd  *)
(* are such children. The code asks for the mode of every child first and  *)
(* returns the error.                                                      *)
C17_ShadowedChildNotStatted ==
  (Listed /\ \A k \in 1..Len(Paths) : ScansIfShadowedSkipped(k)) =>
    (ret.err = "nil" \/ ret.panic)

(* C18, as claimed: for every n <= 0, negative n included, Readdirnames(n) *)
(* returns normally what Readdirnames(0) returns. The code slices          *)
(* names[0:n] for a negative n and panics.                                 *)
C18_NegativeLimit ==
  (Listed /\ ret.n <= 0) =>
    LET full == Readdirnames(fs, Paths, Config, 0)
    IN ~ret.panic /\ ret.names = full.names /\ ret.err = full.err

\* the k-th path is a file given directly, and its mode meets both masks
DirectFile(k) == ~StatMode(fs, Paths[k]).err /\ ~FromDir(Paths[k])

MeetsMasks(path) ==
  LET st == StatMode(fs, path)
  IN st.mode \cap Config.ModePermFilter # {} /\ st.mode \cap Config.ModeTypeFilter # {}

(* C19: a file given directly whose base name no earlier path recorded is  *)
(* returned iff its mode meets the type mask and the permission mask,      *)
(* whether or not its base name matches the pattern; when an earlier path  *)
(* recorded its base name, that earlier entry is returned and the file is  *)
(* not; and when the file is returned no other entry with its base name    *)
(* is, whichever later directory holds one.                                *)
C19_DirectFile ==
  FullList =>
    \A k \in 1..Len(Paths) :
      DirectFile(k) =>
        LET path == Paths[k]
            earlier == FoundNames(fs, Config, Paths, k - 1).found
        IN /\ Base(path) \notin DOMAIN earlier =>
                (path \in Range(ret.names) <=> MeetsMasks(path))
           /\ Base(path) \in DOMAIN earlier =>
                /\ earlier[Base(path)] \in Range(ret.names)
                /\ path # earlier[Base(path)] => path \notin Range(ret.names)
           /\ path \in Range(ret.names) =>
                \A c \in Range(ret.names) : Base(c) = Base(path) => c = path

\* u/4 given directly ahead of e is returned under the pattern "\.c$", which
\* its base name does not match
C19_Witness ==
  /\ FullList /\ Paths = <<FileU4, DirE>> /\ Config.RegExpFilter = ConfRegExpFilter
  /\ ~MatchString(Config.RegExpFilter, Base(FileU4))
  /\ FileU4 \in Range(ret.names)
  /\ Exists(fs, Join(DirE, Name4))

\* files2 are the open files files1, read on or not
SameFiles(files1, files2) ==
  /\ FileNames(files2) = FileNames(files1)
  /\ \A i \in 1..Len(files1) :
       /\ files2[i].data = files1[i].data
       /\ files2[i].closed = files1[i].closed
       /\ files2[i].pos >= files1[i].pos

(* C20: a session starts without read state and gets one only by a Read;   *)
(* a Read that succeeds on a session without read state creates it; and    *)
(* from then until Close every step (a Read, a Readdirnames, a change of   *)
(* the configuration or of the files) leaves the read state in place with  *)
(* the same open files in the same order, none reopened and none closed.   *)
C20_ReadStatePersists ==
  /\ readState.nil
  /\ [][/\ (readState.nil /\ ~readState'.nil) => (ret'.op = "Read" /\ ret'.fresh)
        /\ (readState.nil /\ ret' # ret /\ ret'.op = "Read"
              /\ ret'.err \in {"nil", "EOF"}) => ~readState'.nil
        /\ (~readState.nil /\ ~(ret' # ret /\ ret'.op = "Close")) =>
             /\ ~readState'.nil
             /\ SameFiles(readState.Files, readState'.Files)
             /\ readState'.Reader.nil = readState.Reader.nil]_vars

\* a Read that delivers bytes of the files opened before a change, which are
\* not the files the session resolves to now
C20_Witness ==
  /\ ret.op = "Read" /\ ~ret.fresh /\ ret.at = changes /\ born < changes
  /\ ret.bytes # <<>>
  /\ FileNames(readState.Files) # Readdirnames(fs, Paths, Config, 0).names

\* what Readdirnames has returned is what the paths, the configuration and the
\* files as they are now resolve to, and every name returned has its entry
ListsWhatIsThere ==
  Listed =>
    /\ [names |-> ret.names, err |-> ret.err, panic |-> ret.panic] =
         Readdirnames(fs, Paths, Config, ret.n)
    /\ (ret.err = "nil" /\ ~ret.panic) =>
         \A i \in 1..Len(ret.names) : ~StatMode(fs, ret.names[i]).err

(* C21: every Readdirnames call returns what the session's paths resolve   *)
(* to with the files as they are at that call, so that calls without a     *)
(* change in between return equal lists and a call after a change shows    *)
(* the change; and a Readdirnames call leaves the read state, with the     *)
(* open files and their positions, and everything else of the session as   *)
(* it was.                                                                 *)
C21_ReaddirnamesKeepsReadState ==
  /\ []ListsWhatIsThere
  /\ [][(ret'.op = "Readdirnames" /\ ret' # ret) =>
          UNCHANGED <<fs, Paths, Config, readState, out, born, changes>>]_vars

\* Readdirnames called in the middle of a stream, after a change: it lists
\* other files than the open ones
C21_Witness ==
  /\ Listed /\ ret.err = "nil" /\ ret.n = 0 /\ changes > 0
  /\ ~readState.nil /\ out # <<>> /\ ~EndReported
  /\ ret.names # FileNames(readState.Files)

\* files are the handles a Read opens when it resolves to names: one for each
\* name in order, up to the first name that cannot be opened
OpenedFor(names, files) ==
  /\ Len(files) <= Len(names)
  /\ FileNames(files) = SubSeq(names, 1, Len(files))
  /\ \A i \in 1..Len(files) : ~OpenFails(fs, names[i]) /\ files[i].closed = 0
  /\ Len(files) < Len(names) => OpenFails(fs, names[Len(files) + 1])

(* C22: the handles a Read opens, also when it fails on a file it cannot   *)
(* open, are all held in the read state and stay open there; a Close on    *)
(* that read state calls Close once on each of them, whether or not some   *)
(* of these calls fail, and leaves the session without read state.         *)
C22_HandlesClosedOnce ==
  /\ [](~readState.nil =>
          \A i \in 1..Len(readState.Files) : readState.Files[i].closed = 0)
  /\ [][/\ (readState.nil /\ ~readState'.nil) =>
             OpenedFor(Readdirnames(fs, Paths, Config, 0).names, readState'.Files)
        /\ (ret'.op = "Close" /\ ret' # ret) =>
             /\ readState'.nil /\ ~ret'.panic
             /\ ret'.released = Len(readState.Files)
             /\ ret'.failed <= ret'.released]_vars

\* Close has closed the handles of a Read that opened some of the resolved
\* files and failed on the next
C22_Witness ==
  /\ ret.op = "Close" /\ ret.at = changes /\ born = changes /\ readState.nil
  /\ 0 < ret.released
  /\ ret.released < Len(Readdirnames(fs, Paths, Config, 0).names)

\* StatMode reports entry c as a regular file with one of its nine permission
\* bits set
RegularWithPermission(c) ==
  LET st == StatMode(fs, c)
  IN ~st.err /\ IsRegular(st.mode) /\ st.mode \cap ModePerm # {}

(* C23: under the default configuration every entry that is returned is a  *)
(* regular file with at least one permission bit set, and every such entry *)
(* of a directory or given directly is returned unless an earlier path     *)
(* recorded its base name; regular files with the permission bits 0000 and *)
(* directories are never returned.                                         *)
C23_DefaultConfiguration ==
  (FullList /\ Config = NewDefaultConfig) =>
    /\ \A i \in 1..Len(ret.names) : RegularWithPermission(ret.names[i])
    /\ \A k \in 1..Len(Paths) : \A c \in Supplied(Paths[k]) :
         LET earlier == FoundNames(fs, Config, Paths, k - 1).found
         IN /\ (RegularWithPermission(c) /\ Base(c) \notin DOMAIN earlier) =>
                 c \in Range(ret.names)
            /\ (fs[Follow(fs, c)].kind = "dir" \/ fs[Follow(fs, c)].perm = {}) =>
                 c \notin Range(ret.names)

\* e is listed under the default configuration: its file 1.c with the
\* permission bits 0000 is left out, its file 4 is returned
C23_Witness ==
  /\ FullList /\ Config = NewDefaultConfig
  /\ \E k \in 1..Len(Paths) : Paths[k] = DirE
  /\ fs[Join(DirE, Name1c)].kind = "reg" /\ fs[Join(DirE, Name1c)].perm = {}
  /\ Join(DirE, Name1c) \notin Range(ret.names)
  /\ Join(DirE, Name4) \in Range(ret.names)

====
